---- MODULE Spec2Model ----
(***************************************************************************)
(* yt-play (src/src/main.rs): one invocation resolves a playlist URL to an *)
(* identifier, locates the cache directory, and, when the directory is     *)
(* absent or a refresh is asked for, fetches the playlist and reconciles   *)
(* the directory against it (download_songs), then starts the player.      *)
(*                                                                         *)
(* A string is a sequence of one-character strings.  A file name is a      *)
(* sequence of bytes in which BadByte stands for a byte that is not valid  *)
(* UTF-8, so that OsStr::to_str is a real test.  The cache directory, the  *)
(* remote playlist (what the fetch child reports) and the three child      *)
(* processes are the environment.                                          *)
(***************************************************************************)
EXTENDS Naturals, Sequences, FiniteSets

\* ------------------------------------------------------------------ bounds
\* Most regular files in the cache directory before the first invocation.
MaxFiles == 3
\* Most entries of the remote playlist.
MaxSongs == 2

\* ------------------------------------------------------------- input pools
BadByte == "xFF"

\* Identifiers the remote playlist may hold: one is a substring of the
\* other.
IdPool == { <<"a">>, <<"a", "b">> }

TitlePool == { <<"t">> }

\* struct Song { id, title }
Song == [id : IdPool, title : TitlePool]

RECURSIVE SeqsUpTo(_, _)
SeqsUpTo(S, n) ==
    IF n = 0 THEN { <<>> }
    ELSE LET shorter == SeqsUpTo(S, n - 1)
         IN  shorter \cup { Append(q, x) : q \in { r \in shorter : Len(r) = n - 1 }, x \in S }

\* Playlist.entries: Vec<Song>
Playlists == SeqsUpTo(Song, MaxSongs)

\* The output template download_songs passes with -o,
\* "%(title)s [%(id)s].%(ext)s": "%t", "%i" and "%e" stand for the three
\* fields.
Template == <<"%t", " ", "[", "%i", "]", ".", "%e">>

\* Names of regular files in a cache directory: for each identifier a name
\* with the identifier in brackets (the one of "ab" contains "a" as well),
\* a name that embeds no identifier, and a name that is not valid UTF-8
\* (its valid part is an identifier).
NamePool ==
    { <<"t", " ", "[">> \o i \o <<"]", ".", "m">> : i \in IdPool }
    \cup { <<"z", ".", "m">>, <<"a", BadByte>> }

\* A directory inside the cache directory: not a regular file, so
\* list_files_in_directory skips it.
SubdirPool == { <<"d", "[", "a", "]">> }

\* The command-line URLs: one that does not parse, one without a list
\* parameter, one with it (after another parameter).
UrlPool ==
    { [parses |-> FALSE, query |-> <<>>],
      [parses |-> TRUE,  query |-> << <<"v", "1">> >>],
      [parses |-> TRUE,  query |-> << <<"v", "1">>, <<"list", "PL">>, <<"list", "QQ">> >>] }

\* The command lines: every combination of URL, -r and -v without the
\* optional arguments; and, for the URL that resolves, with -s, with
\* --yt-dlp-arguments giving the downloader a second output template (a
\* tab and a space between the two words) and with --mpv-arguments of one
\* word and a line feed after it.
CliPool ==
    { [url |-> u, refresh |-> r, verbose |-> v, shuffle |-> FALSE,
       yt_dlp_arguments |-> <<>>, mpv_arguments |-> <<>>] :
        u \in UrlPool, r \in BOOLEAN, v \in BOOLEAN }
    \cup
    { [url |-> u, refresh |-> r, verbose |-> FALSE, shuffle |-> TRUE,
       yt_dlp_arguments |-> <<"-", "o", "\t", " ", "z", ".", "%e">>,
       mpv_arguments |-> <<"-", "l", "\n">>] :
        u \in { w \in UrlPool : Len(w.query) > 1 }, r \in BOOLEAN }

None == "none"

\* No reconciliation has succeeded on the directory as it is.
NotSynced == [ok |-> FALSE, entries |-> <<>>]

\* A reconciliation against these entries succeeded.
SyncedWith(entries) == [ok |-> TRUE, entries |-> entries]

\* Before Cli::parse() there is no URL.
NoUrl == [parses |-> FALSE, query |-> << <<"-", "-">> >>]

\* ---------------------------------------------------------- pure functions
\* str::contains: id occurs in name as a contiguous substring.
Contains(name, id) ==
    \E k \in 0 .. Len(name) :
        /\ k + Len(id) <= Len(name)
        /\ \A j \in 1 .. Len(id) : name[k + j] = id[j]

\* Mutant of to_str: a lossy conversion, which never fails.
to_str_Lossy(name) == TRUE

\* OsStr::to_str: Some exactly when every byte is valid UTF-8.
to_str(name) == \A j \in 1 .. Len(name) : name[j] # BadByte

\* extract_id: the value of the first query pair named "list".
extract_id(u) ==
    IF ~u.parses THEN [ok |-> FALSE, id |-> None]
    ELSE LET hits == { k \in 1 .. Len(u.query) : u.query[k][1] = "list" }
         IN  IF hits = {} THEN [ok |-> FALSE, id |-> None]
             ELSE [ok |-> TRUE,
                   id |-> u.query[CHOOSE k \in hits : \A h \in hits : k <= h][2]]

\* get_playlist_directory: a path exactly when the home directory resolves.
get_playlist_directory(home, playlist_id) ==
    IF home THEN [ok |-> TRUE, dir |-> <<"cache", playlist_id>>]
    ELSE [ok |-> FALSE, dir |-> None]

\* fetch_playlist_data after the child's exit: stdout is decoded, then
\* parsed, then stderr is decoded and printed.
fetch_playlist_data(out, playlist) ==
    IF out.stdout = "notutf8" THEN [ok |-> FALSE, shown |-> FALSE, entries |-> <<>>]
    ELSE IF out.stdout = "malformed" THEN [ok |-> FALSE, shown |-> FALSE, entries |-> <<>>]
    ELSE IF ~out.stderrUtf8 THEN [ok |-> FALSE, shown |-> FALSE, entries |-> <<>>]
    ELSE [ok |-> TRUE, shown |-> TRUE, entries |-> playlist]

FetchOutputs == [stdout : {"json", "notutf8", "malformed"}, stderrUtf8 : BOOLEAN]

\* list_files_in_directory: the entries whose metadata says regular file.
list_files_in_directory(regular, directories) == regular

\* valid_ids: HashSet of the songs' ids.
ValidIds(entries) == { entries[k].id : k \in 1 .. Len(entries) }

\* The identifiers the inner loop may stop at for this file name: a HashSet
\* is iterated in an order the program does not fix, so the first match is
\* any of the matching identifiers.
Matches(filename, ids) == { i \in ids : Contains(filename, i) }

\* Mutant of MissingIds: the filter on found_ids is missing.
MissingIds_NoFilter(entries, found) == [k \in 1 .. Len(entries) |-> entries[k].id]

\* missing_ids: the songs whose id is not in found_ids, in playlist order.
RECURSIVE MissingIds(_, _)
MissingIds(entries, found) ==
    IF entries = <<>> THEN <<>>
    ELSE IF Head(entries).id \in found THEN MissingIds(Tail(entries), found)
    ELSE <<Head(entries).id>> \o MissingIds(Tail(entries), found)

\* The characters with the Unicode property White_Space, which
\* char::is_whitespace answers true for.
WhiteSpace ==
    {"\t", "\n", "U+000B", "\f", "\r", " ", "U+0085", "U+00A0", "U+1680",
     "U+2000", "U+2001", "U+2002", "U+2003", "U+2004", "U+2005", "U+2006",
     "U+2007", "U+2008", "U+2009", "U+200A", "U+2028", "U+2029", "U+202F",
     "U+205F", "U+3000"}

\* str::split_whitespace: the maximal runs of characters that are not
\* whitespace.
RECURSIVE split_whitespace(_)
split_whitespace(s) ==
    IF s = <<>> THEN <<>>
    ELSE IF Head(s) \in WhiteSpace THEN split_whitespace(Tail(s))
    ELSE LET stops == { k \in 1 .. Len(s) : s[k] \in WhiteSpace }
             n == IF stops = {} THEN Len(s) + 1
                  ELSE CHOOSE k \in stops : \A h \in stops : k <= h
         IN  <<SubSeq(s, 1, n - 1)>> \o split_whitespace(SubSeq(s, n, Len(s)))

\* The arguments of the playlist-fetch child.
fetch_argv(playlist_id) ==
    << <<"--flat-playlist">>, <<"-J">>,
       <<"https://www.youtube.com/playlist?list=", playlist_id>> >>

\* The arguments of the batch child: the fixed ones, then the words of
\* --yt-dlp-arguments when it is not empty.
yt_dlp_argv(arguments) ==
    << <<"--batch-file">>, <<"-">>, <<"-", "o">>, Template, <<"-", "x">> >>
    \o (IF arguments # <<>> THEN split_whitespace(arguments) ELSE <<>>)

\* The arguments of the player: --no-video, --shuffle when asked for, the
\* words of --mpv-arguments when it is not empty, and the directory.
mpv_argv(shuffle_flag, arguments) ==
    << <<"--no-video">> >>
    \o (IF shuffle_flag THEN << <<"--shuffle">> >> ELSE <<>>)
    \o (IF arguments # <<>> THEN split_whitespace(arguments) ELSE <<>>)
    \o << <<".">> >>

\* The line written to the downloader for one identifier.
ItemUrl(i) == <<"https://www.youtube.com/watch?v=">> \o i

\* Mutant of AfterExists: an existing directory is always refreshed.
AfterExists_AlwaysRefresh(exists, refresh_flag) ==
    IF ~exists THEN "mkdir" ELSE "fetch"

\* Mutant of AfterExists: an absent directory is not created.
AfterExists_NoCreate(exists, refresh_flag) ==
    IF ~exists THEN "fetch"
    ELSE IF refresh_flag THEN "fetch"
    ELSE "play"

\* run's branch on the cache directory: what follows the existence test.
AfterExists(exists, refresh_flag) ==
    IF ~exists THEN "mkdir"
    ELSE IF refresh_flag THEN "fetch"
    ELSE "play"

\* Mutant of FirstMatch: the name is compared with ==, not with contains.
FirstMatch_Exact(filename, ids) ==
    IF filename \in ids
    THEN { [hit |-> TRUE, id |-> filename] }
    ELSE { [hit |-> FALSE, id |-> None] }

\* The inner loop `for id in &valid_ids` with its break: the outcomes it can
\* end with for one file name.  Without a match the file is erroneous.
FirstMatch(filename, ids) ==
    IF Matches(filename, ids) = {}
    THEN { [hit |-> FALSE, id |-> None] }
    ELSE { [hit |-> TRUE, id |-> i] : i \in Matches(filename, ids) }

\* if missing_ids.is_empty() { return Ok(()); }
AfterScan(missing) == IF missing = <<>> THEN "play" ELSE "batch"

\* The `?` operator and main's handler: an error ends the invocation at the
\* step that raised it.
Propagate(step) == [pc |-> "failed", err |-> step]

\* A println!/eprintln! whose stream cannot be written panics: the process
\* ends there with status 101, without main's handler.
Panic(step) == [pc |-> "exited", err |-> step, exitCode |-> 101]

\* The prints inside update_playlist (lines 96, 202, 143, 158).
UpdatePrints == {"print_stderr", "print_fetched", "print_delete", "print_batch"}

\* The steps of update_playlist (fetch and reconciliation).
UpdateSteps == {"fetch_spawn", "fetch_output", "list", "delete",
                "batch_spawn", "feed", "wait", "download"} \cup UpdatePrints

\* ------------------------------------------------------------------- state
VARIABLES
    \* the environment: the cache directory
    dirExists,      \* fs::exists(playlist_directory)
    files,          \* names of the regular files in the directory
    subdirs,        \* names of its entries that are not regular files
    \* one invocation (fn run)
    pc,             \* the statement run is about to execute
    url,            \* cli.url
    refresh,        \* cli.refresh
    verbose,        \* cli.verbose
    shuffle,        \* cli.shuffle
    yt_dlp_arguments,  \* cli.yt_dlp_arguments.unwrap_or(String::new())
    mpv_arguments,  \* cli.mpv_arguments.unwrap_or(String::new())
    id,             \* let id = extract_id(&url)?
    cached,         \* what fs::exists answered: "yes", "no", or None before
    songs,          \* playlist_data.entries
    todo,           \* files of the Vec the for loop has not visited yet
    listed,         \* the Vec list_files_in_directory returned
    found_ids,      \* found_ids
    missing_ids,    \* missing_ids
    urls,           \* lines written to the batch downloader's stdin
    running,        \* the child process this invocation has alive, or None
    argv,           \* the arguments of the child started last
    orphan,         \* a batch child that an ended invocation left behind
                    \* is alive
    stderrShown,    \* eprintln!("{stderr}") was executed
    err,            \* the step whose error is propagating, or None
    exitCode,       \* the process's exit status (read when pc = "exited")
    \* history, for stating the properties
    log,            \* effects of this invocation, in order
    synced,         \* the entries the last download_songs returned Ok(())
                    \* for, while no file has been created in the directory
                    \* since it returned; NotSynced otherwise
    syncedAtStart,  \* this reconciliation started from the directory that a
                    \* successful reconciliation against the same entries left
    prevFail        \* how the previous invocation ended: "no" failure inside
                    \* update_playlist, "failed" there, or "failed_fresh":
                    \* failed there after creating the directory itself;
                    \* kept while this invocation has not turned to updating
                    \* the cache

env  == <<dirExists, files, subdirs>>
hist == <<synced, syncedAtStart, prevFail>>
args == <<url, refresh, verbose, shuffle, yt_dlp_arguments, mpv_arguments>>
loc  == <<id, cached, songs, todo, listed, found_ids, missing_ids, urls, argv>>
kids == <<running, orphan>>
vars == <<env, hist, args, loc, kids, pc, stderrShown, err, exitCode, log>>

FileSets == { F \in SUBSET NamePool : Cardinality(F) <= MaxFiles }

Fresh ==
    /\ pc = "idle"
    /\ url = NoUrl /\ refresh = FALSE /\ verbose = FALSE
    /\ shuffle = FALSE /\ yt_dlp_arguments = <<>> /\ mpv_arguments = <<>>
    /\ argv = <<>>
    /\ id = None /\ cached = None
    /\ songs = <<>> /\ todo = {} /\ listed = {} /\ found_ids = {}
    /\ missing_ids = <<>> /\ urls = <<>>
    /\ running = None
    /\ stderrShown = FALSE /\ err = None /\ exitCode = 0
    /\ log = <<>> /\ syncedAtStart = FALSE

Init ==
    /\ dirExists \in BOOLEAN
    /\ files \in (IF dirExists THEN FileSets ELSE { {} })
    /\ subdirs = (IF dirExists THEN SubdirPool ELSE {})
    /\ orphan = FALSE
    /\ synced = NotSynced
    /\ prevFail = "no"
    /\ Fresh

\* ------------------------------------------------------------ control flow
\* The step succeeded: go on with the next statement.
Goto(p) == pc' = p /\ UNCHANGED <<err, exitCode>>

\* The step returned Err and `?` propagates it.
Raise(step) ==
    /\ pc' = Propagate(step).pc /\ err' = Propagate(step).err
    /\ UNCHANGED exitCode

\* A print panicked.
Abort(step) ==
    /\ pc' = Panic(step).pc /\ err' = Panic(step).err
    /\ exitCode' = Panic(step).exitCode

\* ----------------------------------------------------------------- actions
\* The user starts the program; Cli::parse() ends the process itself on a
\* usage error (status 2) and for --help or --version (status 0).
Launch ==
    /\ pc = "idle"
    /\ \E parsed \in {"usage", "help", "run"} :
         IF parsed = "run"
         THEN /\ \E cli \in CliPool :
                    /\ url' = cli.url /\ refresh' = cli.refresh
                    /\ verbose' = cli.verbose /\ shuffle' = cli.shuffle
                    /\ yt_dlp_arguments' = cli.yt_dlp_arguments
                    /\ mpv_arguments' = cli.mpv_arguments
              /\ Goto("extract")
         ELSE /\ UNCHANGED <<url, refresh, verbose, shuffle, yt_dlp_arguments,
                             mpv_arguments, err>>
              /\ pc' = "exited"
              /\ exitCode' = (IF parsed = "usage" THEN 2 ELSE 0)
    /\ UNCHANGED <<env, hist, loc, kids, stderrShown, log>>

\* let id = extract_id(&url)?; if cli.verbose { println!(..) }
run_extract_id ==
    /\ pc = "extract"
    /\ LET r == extract_id(url)
       IN  IF r.ok
           THEN /\ id' = r.id
                /\ \E printed \in (IF verbose THEN BOOLEAN ELSE {TRUE}) :
                      IF printed THEN Goto("locate") ELSE Abort("print_id")
           ELSE /\ id' = id /\ Raise("extract")
    /\ UNCHANGED <<env, hist, args, cached, songs, todo, listed, found_ids,
                   missing_ids, urls, argv, kids, stderrShown, log>>

\* let playlist_directory = get_playlist_directory(&id)?; if cli.verbose ..
run_get_playlist_directory ==
    /\ pc = "locate"
    /\ \E home \in BOOLEAN :
         IF get_playlist_directory(home, id).ok
         THEN \E printed \in (IF verbose THEN BOOLEAN ELSE {TRUE}) :
                 IF printed THEN Goto("exists") ELSE Abort("print_dir")
         ELSE Raise("locate")
    /\ UNCHANGED <<env, hist, args, loc, kids, stderrShown, log>>

\* if !fs::exists(&playlist_directory)? { .. } else if cli.refresh { .. }
run_exists ==
    /\ pc = "exists"
    /\ \E ok \in BOOLEAN :
         IF ok
         THEN /\ cached' = (IF dirExists THEN "yes" ELSE "no")
              /\ prevFail' = (IF AfterExists(dirExists, refresh) = "play"
                               THEN prevFail ELSE "no")
              /\ Goto(AfterExists(dirExists, refresh))
         ELSE /\ cached' = cached /\ prevFail' = prevFail /\ Raise("exists")
    /\ UNCHANGED <<env, synced, syncedAtStart, args, id, songs, todo, listed,
                   found_ids, missing_ids, urls, argv, kids, stderrShown, log>>

\* fs::create_dir_all(&playlist_directory).map_err(..)?;
run_create_dir_all ==
    /\ pc = "mkdir"
    /\ \E ok \in BOOLEAN :
         IF ok
         THEN /\ dirExists' = TRUE
              /\ log' = Append(log, <<"mkdir">>)
              /\ Goto("fetch")
         ELSE /\ UNCHANGED <<dirExists, log>>
              /\ Raise("mkdir")
    /\ UNCHANGED <<files, subdirs, hist,
                   args, loc, kids, stderrShown>>

\* yt_dlp.output(): the child is started ...
fetch_playlist_data_spawn ==
    /\ pc = "fetch"
    /\ \E ok \in BOOLEAN :
         IF ok
         THEN /\ running' = "fetch" /\ argv' = fetch_argv(id)
              /\ log' = Append(log, <<"fetch">>)
              /\ Goto("fetch_wait")
         ELSE /\ UNCHANGED <<running, argv, log>>
              /\ Raise("fetch_spawn")
    /\ UNCHANGED <<env, hist, args, id, cached, songs, todo, listed, found_ids,
                   missing_ids, urls, orphan, stderrShown>>

\* ... and has exited; its output is decoded and parsed, its stderr is
\* decoded and printed (line 96), and with -v the playlist is printed
\* (line 202).
fetch_playlist_data_output ==
    /\ pc = "fetch_wait"
    /\ running' = None
    /\ \E out \in FetchOutputs, playlist \in Playlists :
         LET r == fetch_playlist_data(out, playlist)
         IN  IF ~r.ok
             THEN /\ stderrShown' = r.shown /\ songs' = songs
                  /\ Raise("fetch_output")
             ELSE \E printed \in {"both", "stderr_failed"}
                                   \cup (IF verbose THEN {"stdout_failed"} ELSE {}) :
                    IF printed = "stderr_failed"
                    THEN /\ stderrShown' = FALSE /\ songs' = songs
                         /\ Abort("print_stderr")
                    ELSE /\ stderrShown' = r.shown /\ songs' = r.entries
                         /\ IF printed = "both" THEN Goto("list")
                            ELSE Abort("print_fetched")
    /\ UNCHANGED <<env, hist, args, id, cached, todo, listed, found_ids,
                   missing_ids, urls, argv, orphan, log>>

\* let files = list_files_in_directory(playlist_directory)?;
download_songs_list ==
    /\ pc = "list"
    /\ \E ok \in BOOLEAN :
         IF ok
         THEN /\ listed' = list_files_in_directory(files, subdirs)
              /\ todo' = list_files_in_directory(files, subdirs)
              /\ found_ids' = {}
              /\ log' = Append(log, <<"list">>)
              /\ synced' = NotSynced
              /\ syncedAtStart' = (synced = SyncedWith(songs))
              /\ Goto("scan")
         ELSE /\ UNCHANGED <<listed, todo, found_ids, log, synced, syncedAtStart>>
              /\ Raise("list")
    /\ UNCHANGED <<env, prevFail, args, id, cached,
                   songs, missing_ids, urls, argv, kids, stderrShown>>

\* One turn of `for path in files`: a name that is not UTF-8 is skipped, a
\* name some identifier occurs in marks that identifier found, any other
\* file is reported (line 143) and removed (line 144).
download_songs_scan ==
    /\ pc = "scan"
    /\ \E path \in todo :
         /\ todo' = todo \ {path}
         /\ IF ~to_str(path)
            THEN UNCHANGED <<found_ids, files, log, pc, err, exitCode>>
            ELSE \E m \in FirstMatch(path, ValidIds(songs)) :
                   IF m.hit
                   THEN /\ found_ids' = found_ids \cup {m.id}
                        /\ UNCHANGED <<files, log, pc, err, exitCode>>
                   ELSE \E outcome \in {"removed", "remove_failed", "print_failed"} :
                          IF outcome = "removed"
                          THEN /\ files' = files \ {path}
                               /\ log' = Append(log, <<"delete", path>>)
                               /\ UNCHANGED <<found_ids, pc, err, exitCode>>
                          ELSE /\ IF outcome = "remove_failed"
                                  THEN Raise("delete") ELSE Abort("print_delete")
                               /\ UNCHANGED <<found_ids, files, log>>
    /\ UNCHANGED <<dirExists, subdirs, hist, args, id, cached, songs,
                   listed, missing_ids, urls, argv, kids, stderrShown>>

\* After the loop: missing_ids is computed; when it is empty download_songs
\* returns Ok(()) and run goes on to play_songs.
download_songs_missing ==
    /\ pc = "scan" /\ todo = {}
    /\ missing_ids' = MissingIds(songs, found_ids)
    /\ Goto(AfterScan(MissingIds(songs, found_ids)))
    /\ IF AfterScan(MissingIds(songs, found_ids)) = "play"
       THEN synced' = SyncedWith(songs)
       ELSE UNCHANGED synced
    /\ UNCHANGED <<env, syncedAtStart, prevFail, args, id, cached, songs, todo,
                   listed, found_ids, urls, argv, kids, stderrShown, log>>

\* println!("Downloading {} missing songs..."); let mut child = yt_dlp.spawn()?;
download_songs_spawn ==
    /\ pc = "batch"
    /\ \E outcome \in {"spawned", "spawn_failed", "print_failed"} :
         IF outcome = "spawned"
         THEN /\ running' = "batch"
              /\ argv' = yt_dlp_argv(yt_dlp_arguments)
              /\ log' = Append(log, <<"batch">>)
              /\ Goto("feed")
         ELSE /\ UNCHANGED <<running, argv, log>>
              /\ IF outcome = "spawn_failed"
                 THEN Raise("batch_spawn") ELSE Abort("print_batch")
    /\ UNCHANGED <<env, hist, args, id, cached, songs, todo, listed, found_ids,
                   missing_ids, urls, orphan, stderrShown>>

\* The batch child runs beside the program from the moment it is spawned,
\* also between two lines written to it.  Its program is not part of the
\* source: which files it creates in its working directory, and when, is
\* its own affair, whatever its arguments, its input and the status it will
\* exit with.
batch_child_writes ==
    /\ running = "batch"
    /\ \E f \in NamePool \ files : files' = files \cup {f}
    /\ UNCHANGED <<dirExists, subdirs, hist, args, loc, kids, pc, stderrShown,
                   err, exitCode, log>>

\* One turn of `for id in missing_ids { writeln!(stdin, ..)?; }`: the next
\* line is written, or the write fails (the child has closed its stdin) and
\* the error is propagated; the Child is then dropped, neither killed nor
\* waited for.  After the last line the block ends and stdin is closed.
download_songs_feed ==
    /\ pc = "feed"
    /\ \E written \in BOOLEAN :
         IF written
         THEN /\ urls' = Append(urls, ItemUrl(missing_ids[Len(urls) + 1]))
              /\ Goto(IF Len(urls) + 1 = Len(missing_ids)
                      THEN "batch_wait" ELSE "feed")
         ELSE /\ urls' = urls
              /\ Raise("feed")
    /\ UNCHANGED <<env, hist, args, id, cached, songs, todo, listed,
                   found_ids, missing_ids, argv, kids, stderrShown, log>>

\* let status = child.wait()?; if !status.success() { return Err(..) }
\* When the wait itself fails the Child is dropped as it is, possibly alive.
download_songs_wait ==
    /\ pc = "batch_wait"
    /\ running' = None
    /\ \E outcome \in {"success", "nonzero", "waiterr"} :
         /\ IF outcome = "success"
            THEN /\ Goto("play")
                 /\ synced' = SyncedWith(songs)
            ELSE /\ Raise(IF outcome = "nonzero" THEN "download" ELSE "wait")
                 /\ UNCHANGED synced
         /\ orphan' = (orphan \/ outcome = "waiterr")
    /\ UNCHANGED <<env, syncedAtStart, prevFail, args, loc, stderrShown, log>>

\* mpv.arg(".").status()?: the player is started ...
play_songs_spawn ==
    /\ pc = "play"
    /\ \E ok \in BOOLEAN :
         IF ok
         THEN /\ running' = "player"
              /\ argv' = mpv_argv(shuffle, mpv_arguments)
              /\ log' = Append(log, <<"play">>)
              /\ Goto("play_wait")
         ELSE /\ UNCHANGED <<running, argv, log>>
              /\ Raise("play")
    /\ UNCHANGED <<env, hist, args, id, cached, songs, todo, listed, found_ids,
                   missing_ids, urls, orphan, stderrShown>>

\* ... and waited for: its exit status is not looked at, but an error of
\* the wait itself is propagated.
play_songs_status ==
    /\ pc = "play_wait"
    /\ running' = None
    /\ \E waited \in BOOLEAN :
         IF waited THEN Goto("ok") ELSE Raise("play_wait")
    /\ UNCHANGED <<env, hist, args, loc, orphan, stderrShown, log>>

\* fn main: run() returned Ok(()).
main_ok ==
    /\ pc = "ok"
    /\ exitCode' = 0
    /\ pc' = "exited"
    /\ UNCHANGED <<env, hist, args, loc, kids, stderrShown, err, log>>

\* A batch child that was not waited for outlives the process.
Abandon ==
    IF running = "batch"
    THEN running' = None /\ orphan' = TRUE
    ELSE UNCHANGED kids

\* Mutant of main_err: a failed invocation removes the cache directory.
main_err_RemoveDirectory ==
    /\ pc = "failed"
    /\ exitCode' = 1
    /\ pc' = "exited"
    /\ Abandon
    /\ dirExists' = FALSE /\ files' = {} /\ subdirs' = {}
    /\ UNCHANGED <<hist, args, loc, stderrShown, err, log>>

\* fn main: eprintln!("Error: {e}"); std::process::exit(1);  When stderr
\* cannot be written the eprintln! panics and the status is 101.
main_err ==
    /\ pc = "failed"
    /\ \E printed \in BOOLEAN :
         exitCode' = (IF printed THEN 1 ELSE Panic(err).exitCode)
    /\ pc' = "exited"
    /\ Abandon
    /\ UNCHANGED <<env, hist, args, loc, stderrShown, err, log>>

\* A batch child left behind goes on creating files in the directory ...
orphan_writes ==
    /\ orphan
    /\ \E f \in NamePool \ files : files' = files \cup {f}
    /\ synced' = NotSynced /\ syncedAtStart' = FALSE
    /\ UNCHANGED <<dirExists, subdirs, prevFail, args, loc, kids, pc,
                   stderrShown, err, exitCode, log>>

\* ... until it exits.
orphan_exits ==
    /\ orphan
    /\ orphan' = FALSE
    /\ UNCHANGED <<env, hist, args, loc, running, pc, stderrShown,
                   err, exitCode, log>>

\* The process is gone; the directory stays as it was left.
Reap ==
    /\ pc = "exited"
    /\ prevFail' = (IF err \notin UpdateSteps THEN "no"
                     ELSE IF cached = "no" THEN "failed_fresh" ELSE "failed")
    /\ pc' = "idle"
    /\ url' = NoUrl /\ refresh' = FALSE /\ verbose' = FALSE
    /\ shuffle' = FALSE /\ yt_dlp_arguments' = <<>> /\ mpv_arguments' = <<>>
    /\ argv' = <<>>
    /\ id' = None /\ cached' = None
    /\ songs' = <<>> /\ todo' = {} /\ listed' = {} /\ found_ids' = {}
    /\ missing_ids' = <<>> /\ urls' = <<>>
    /\ stderrShown' = FALSE /\ err' = None /\ exitCode' = 0
    /\ log' = <<>> /\ syncedAtStart' = FALSE
    /\ UNCHANGED <<env, synced, kids>>

Next ==
    \/ Launch
    \/ run_extract_id
    \/ run_get_playlist_directory
    \/ run_exists
    \/ run_create_dir_all
    \/ fetch_playlist_data_spawn
    \/ fetch_playlist_data_output
    \/ download_songs_list
    \/ download_songs_scan
    \/ download_songs_missing
    \/ download_songs_spawn
    \/ batch_child_writes
    \/ download_songs_feed
    \/ download_songs_wait
    \/ play_songs_spawn
    \/ play_songs_status
    \/ main_ok
    \/ main_err
    \/ orphan_writes
    \/ orphan_exits
    \/ Reap

Spec == Init /\ [][Next]_vars

\* ------------------------------------------------------------- properties
InLog(e) == \E k \in 1 .. Len(log) : log[k] = e

Count(e) == Cardinality({ k \in 1 .. Len(log) : log[k] = e })

\* The files this invocation removed.
Deleted == { log[k][2] : k \in { j \in 1 .. Len(log) : log[j][1] = "delete" } }

\* download_songs has returned Ok(()) in this invocation.
ReconcileOk ==
    /\ InLog(<<"list">>)
    /\ \/ pc \in {"play", "play_wait", "ok"}
       \/ pc \in {"failed", "exited"} /\ err \in {None, "play", "play_wait"}

\* The batch downloader was started and every line was written to it.
FedAll ==
    /\ InLog(<<"batch">>)
    /\ \/ pc \in {"batch_wait", "play", "play_wait", "ok"}
       \/ pc \in {"failed", "exited"}
          /\ err \in {None, "play", "play_wait", "download", "wait"}

\* The name is valid UTF-8.
Readable(f) == \A j \in 1 .. Len(f) : f[j] # BadByte

\* The files with a readable name in which the identifier occurs.
FilesOf(F, i) == { f \in F : Readable(f) /\ Contains(f, i) }

\* No desired identifier occurs in the name.
Unmatched(f) == \A k \in 1 .. Len(songs) : ~Contains(f, songs[k].id)

\* C1 (as stated): after a reconciliation that returned Ok, the directory
\* holds exactly one file per playlist entry and no file whose name contains
\* none of the desired identifiers.
C1_ExactlyOneFilePerEntry ==
    ReconcileOk =>
        /\ \A k \in 1 .. Len(songs) :
             Cardinality({ f \in files : Contains(f, songs[k].id) }) = 1
        /\ \A f \in files : \E k \in 1 .. Len(songs) : Contains(f, songs[k].id)

\* C1 (amended): after a reconciliation that returned Ok, the files it
\* removed are exactly the listed files whose names are valid UTF-8 and
\* contain none of the desired identifiers, every other listed file is still
\* there, and every desired identifier either occurs in the name of a listed
\* file that is still there or was fed to the batch downloader, which exited
\* with status 0.
C1_ReconciledDirectory ==
    ReconcileOk =>
        /\ Deleted = { f \in listed : Readable(f) /\ Unmatched(f) }
        /\ listed \ Deleted \subseteq files
        /\ \A k \in 1 .. Len(songs) :
             \/ FilesOf(listed \cap files, songs[k].id) # {}
             \/ FedAll /\ \E u \in 1 .. Len(urls) : urls[u] = ItemUrl(songs[k].id)

\* C1 witness: a reconciliation returned Ok after removing a file and
\* downloading, and left two files for one entry and a file whose name is
\* not valid UTF-8.
C1_Witness ==
    /\ ReconcileOk /\ FedAll /\ Deleted # {}
    /\ \E k \in 1 .. Len(songs) : Cardinality(FilesOf(files, songs[k].id)) >= 2
    /\ \E f \in files : ~Readable(f)

\* C2 (as stated): a reconciliation that starts from the directory a
\* successful reconciliation against the same playlist left removes no file,
\* finds no entry missing and does not start the batch downloader.
C2_SecondRunIsNoOp ==
    syncedAtStart =>
        /\ Deleted = {}
        /\ missing_ids = <<>>
        /\ ~InLog(<<"batch">>)

\* C3: a listed file whose name contains a desired identifier is still in
\* the directory, at every point of the reconciliation and after it.
C3_MatchingFileKept ==
    \A f \in listed :
        (\E k \in 1 .. Len(songs) : Contains(f, songs[k].id)) => f \in files

\* C3 witness: the reconciliation is over, it removed a file, and it kept a
\* file whose name contains two desired identifiers, one inside the other.
C3_Witness ==
    /\ ReconcileOk /\ Deleted # {}
    /\ \E f \in listed \cap files :
         \E i, j \in ValidIds(songs) :
            i # j /\ Contains(j, i) /\ Contains(f, j)

\* C4: with the directory present and no refresh, nothing is fetched, listed,
\* removed or downloaded, no file leaves the directory (a file can appear in
\* it only from a batch child an earlier invocation left behind), and the
\* player is the only thing started.
C4_Inv ==
    (cached = "yes" /\ ~refresh) =>
        /\ pc \in {"play", "play_wait", "ok", "failed", "exited"}
        /\ \A k \in 1 .. Len(log) : log[k] = <<"play">>
        /\ songs = <<>> /\ listed = {} /\ urls = <<>> /\ ~stderrShown
        /\ running \in {None, "player"}
        /\ err \in {None, "play", "play_wait"}
        /\ (pc \in {"play_wait", "ok", "exited"} /\ err = None) => log = << <<"play">> >>

C4_CachedPlaysDirectly ==
    /\ []C4_Inv
    /\ [][(cached = "yes" /\ ~refresh) =>
            /\ files \subseteq files' /\ dirExists' = dirExists /\ subdirs' = subdirs
            /\ files' # files => orphan]_vars

\* C4 witness: such an invocation has ended after the player ran, in a
\* directory that no successful reconciliation left and that holds a file
\* whose name embeds no identifier.
C4_Witness ==
    /\ pc = "exited" /\ exitCode = 0 /\ cached = "yes" /\ ~refresh
    /\ log = << <<"play">> >>
    /\ ~synced.ok
    /\ \E f \in files : Readable(f) /\ \A i \in IdPool : ~Contains(f, i)

\* The k-th (in playlist order) entry whose identifier was not found.
MissingAt(k) ==
    LET P == { p \in 1 .. Len(songs) : songs[p].id \notin found_ids }
    IN  songs[CHOOSE p \in P : Cardinality({ q \in P : q <= p }) = k].id

\* C5: the batch downloader is started at most once; no line is ever written
\* for an identifier marked found; the lines written so far are, in playlist
\* order, the item URLs of the first entries whose identifier was not found,
\* and once all lines are written there is one per such entry; and a
\* reconciliation that returned Ok although some entry had no matching file
\* started the downloader exactly once.
C5_BatchFedMissing ==
    /\ Count(<<"batch">>) <= 1
    /\ \A u \in 1 .. Len(urls) : \A i \in found_ids : urls[u] # ItemUrl(i)
    /\ InLog(<<"batch">>) =>
         /\ Len(urls) <= Cardinality({ p \in 1 .. Len(songs) : songs[p].id \notin found_ids })
         /\ \A u \in 1 .. Len(urls) : urls[u] = ItemUrl(MissingAt(u))
    /\ FedAll =>
         Len(urls) = Cardinality({ p \in 1 .. Len(songs) : songs[p].id \notin found_ids })
    /\ (ReconcileOk /\ \E k \in 1 .. Len(songs) : FilesOf(listed, songs[k].id) = {})
         => (Count(<<"batch">>) = 1 /\ FedAll /\ urls # <<>>)

\* C5 witness: of two desired entries one was found in a file and the other
\* was fed to the downloader, after a file of neither was removed.
C5_Witness ==
    /\ ReconcileOk /\ FedAll
    /\ Len(songs) = 2 /\ Len(urls) = 1 /\ Cardinality(found_ids) = 1
    /\ Deleted # {}

\* C6 (as stated): with an empty playlist a reconciliation that returned Ok
\* removed every file and did not start the batch downloader.
C6_EmptyPlaylistRemovesAll ==
    (ReconcileOk /\ songs = <<>>) =>
        /\ Deleted = listed
        /\ ~InLog(<<"batch">>)

\* C7 (as stated): once the playlist-fetch child has been started and has
\* exited, its stderr has been printed.
C7_StderrSurfaced ==
    (InLog(<<"fetch">>) /\ running # "fetch") => stderrShown

\* What the log may hold when the error of a step is propagating.
LogAtError ==
    /\ err \in {"extract", "print_id", "locate", "print_dir", "exists", "mkdir"}
         => log = <<>>
    /\ err = "fetch_spawn" => ~InLog(<<"fetch">>)
    /\ err \in {"fetch_spawn", "fetch_output", "print_stderr", "print_fetched", "list"}
         => ~InLog(<<"list">>) /\ Deleted = {}
    /\ err \in {"fetch_output", "print_stderr", "print_fetched", "list"}
         => log[Len(log)] = <<"fetch">>
    /\ err \in {"delete", "print_delete", "print_batch", "batch_spawn"}
         => ~InLog(<<"batch">>) /\ urls = <<>>
    /\ err \in {"delete", "print_delete"} => missing_ids = <<>>
    /\ err \in {"feed", "wait", "download"} => log[Len(log)] = <<"batch">>
    /\ err = "play_wait" => log[Len(log)] = <<"play">>

\* Once a step has failed the program does nothing more: it is in main's
\* handler or gone, and unless the failure is the wait for the player, the
\* player was never started.
NoLaterStep ==
    err # None =>
        /\ pc \in {"failed", "exited"}
        /\ pc = "failed" => ENABLED main_err
        /\ err # "play_wait" => ~InLog(<<"play">>)
        /\ running # "player"
        /\ LogAtError

\* After a failure no file leaves the directory (one can appear only from a
\* batch child that is still alive) and the program has no further effect.
NoRollback ==
    err # None =>
        /\ files \subseteq files' /\ dirExists' = dirExists
        /\ files' # files => (running = "batch" \/ orphan)
        /\ pc' \in {pc, "exited", "idle"}
        /\ pc' # "idle" => (log' = log /\ urls' = urls /\ err' = err)

\* The failures the claim names.
StatedFailures ==
    {"extract", "locate", "mkdir", "fetch_spawn", "fetch_output", "list",
     "delete", "download"}

\* C8 (as stated): once one of the named steps has failed, no later step
\* runs, nothing is rolled back, and the process ends with exit status 1.
C8_ErrorsExitOne ==
    /\ [](NoLaterStep /\ ((err \in StatedFailures /\ pc = "exited") => exitCode = 1))
    /\ [][NoRollback]_vars

Rank(e) ==
    CASE e[1] = "mkdir"  -> 1
      [] e[1] = "fetch"  -> 2
      [] e[1] = "list"   -> 3
      [] e[1] = "delete" -> 4
      [] e[1] = "batch"  -> 5
      [] e[1] = "play"   -> 6

\* C9: in an invocation that updates the cache, the effects come in the
\* order create (exactly when the directory was absent), fetch, listing,
\* removals, at most one batch download, playback; a child process is alive
\* only while the program feeds it or waits for it, or, for the batch child,
\* while a failed feed is ending the program; playback comes after a
\* reconciliation and is the last effect.
C9_StepsInOrder ==
    /\ running = "fetch" => pc = "fetch_wait" /\ log[Len(log)] = <<"fetch">>
    /\ running = "batch" =>
         /\ pc \in {"feed", "batch_wait"} \/ (pc = "failed" /\ err = "feed")
         /\ log[Len(log)] = <<"batch">>
    /\ running = "player" => pc = "play_wait" /\ log[Len(log)] = <<"play">>
    /\ (cached = "no" \/ (cached = "yes" /\ refresh)) =>
         /\ \A i, j \in 1 .. Len(log) :
              i < j => \/ Rank(log[i]) < Rank(log[j])
                       \/ Rank(log[i]) = 4 /\ Rank(log[j]) = 4 /\ log[i] # log[j]
         /\ (cached = "no" /\ log # <<>>) => log[1] = <<"mkdir">>
         /\ cached = "yes" => ~InLog(<<"mkdir">>)
         /\ InLog(<<"list">>) => InLog(<<"fetch">>)
         /\ InLog(<<"play">>) => ReconcileOk
         /\ (pc = "exited" /\ err = None) => log[Len(log)] = <<"play">>

\* C9 witness: a refresh that fetched, removed a file, wrote two lines to
\* the downloader, found a new file in the directory and played has ended.
C9_Witness ==
    /\ pc = "exited" /\ err = None /\ cached = "yes" /\ refresh
    /\ Deleted # {} /\ InLog(<<"batch">>) /\ Len(urls) = 2
    /\ files \ listed # {}
    /\ log[Len(log)] = <<"play">>

C10_Inv ==
    /\ (pc \in {"failed", "exited"} /\ err \in UpdateSteps) => dirExists
    /\ prevFail # "no" => dirExists /\ cached \in {None, "yes"}
    /\ (prevFail # "no" /\ ~refresh /\ cached = "yes") =>
         /\ \A k \in 1 .. Len(log) : log[k] = <<"play">>
         /\ songs = <<>> /\ listed = {} /\ urls = <<>>
         /\ (pc = "exited" /\ err = None) => log = << <<"play">> >>

\* C10: no step of the program removes the cache directory; after an
\* invocation that failed while fetching or reconciling the directory is
\* there, and the next invocation, without refresh, finds it and starts the
\* player without fetching or reconciling.
C10_FailedUpdateLeavesCache ==
    /\ []C10_Inv
    /\ [][dirExists => dirExists']_vars

\* C10 witness: the previous invocation created the directory and failed in
\* the update, so that no reconciliation has ever returned Ok for it, and
\* this one, without refresh, has played and ended with 0.
C10_Witness ==
    /\ pc = "exited" /\ exitCode = 0 /\ err = None
    /\ prevFail = "failed_fresh" /\ ~refresh /\ cached = "yes"
    /\ log = << <<"play">> >>

====
